---------------------------- MODULE Spec2Model ----------------------------
(***************************************************************************)
(* A model of main.py: the batch driver (main), the agent loop             *)
(* (process_artifact), the retry policy (retry_openai_request,             *)
(* exponential_backoff), the file helpers and the checkpoint sink          *)
(* (create_git_commit).                                                    *)
(*                                                                         *)
(* Strings are sequences of one-character tokens ("CR" and "LF" stand for  *)
(* carriage return and line feed); a file name is a string and a path is a *)
(* sequence of file names (its components).  Messages that the program     *)
(* formats (error texts, status texts) are one-token strings.              *)
(***************************************************************************)
EXTENDS Integers, Sequences, FiniteSets, TLC

(***************************************************************************)
(* Bounds of the model.                                                    *)
(***************************************************************************)
\* Operation Requests one response of the decision service carries at most.
MaxCalls == 2
\* Operation Requests the decision service issues in one batch at most,
\* when the transcript is recorded in full (see keepHistory).
MaxOps == 2
\* The decision service fails only while it has issued at most this many
\* Operation Requests in the batch (when the transcript is recorded in full).
MaxFaultOps == 1
\* random.uniform(0, 1) is drawn from the grid {0, 1/JitterDen, ..., 1}.
JitterDen == 2

(***************************************************************************)
(* Program constants.                                                      *)
(***************************************************************************)
max_retries == 5
max_delay == 60

(***************************************************************************)
(* Strings, names and paths.                                               *)
(***************************************************************************)
OutputRoot == << <<"o","u","t">> >>
InputRoot == << <<"i","n">> >>

\* The artifact names of the input directories of the model.
N2a == <<"2","_","a">>
N3c == <<"3","_","c">>
N10b == <<"1","0","_","b">>
NReadme == <<"R","E","A","D","M","E">>

\* The file names the decision service uses in its requests.
FA == <<"a">>
FD == <<"d">>

Min(a, b) == IF a <= b THEN a ELSE b

\* os.path.join(a, b): an absolute b (first component "/") replaces a.
PathJoin(a, b) ==
    IF b # <<>> /\ b[1] = <<"/">> THEN b ELSE a \o b

\* os.path.dirname(p): everything before the last component.
DirName(p) == IF p = <<>> THEN <<>> ELSE SubSeq(p, 1, Len(p) - 1)

\* os.path.basename(p): the last component.
BaseName(p) == IF p = <<>> THEN <<>> ELSE p[Len(p)]

\* Every proper ancestor directory of p and p itself, shortest first.
Ancestors(p) == { SubSeq(p, 1, n) : n \in 1..Len(p) }

\* The parent directory, as a path component.
Up == <<".", ".">>

\* The place the operating system resolves a path to: a parent-directory
\* component drops the component before it.  A relative path is resolved
\* from the working directory << >>.
RECURSIVE Resolve(_)
Resolve(p) ==
    IF p = <<>> THEN <<>>
    ELSE LET front == Resolve(SubSeq(p, 1, Len(p) - 1))
             last == p[Len(p)]
         IN IF last # Up THEN Append(front, last)
            ELSE IF front = <<>> \/ front[Len(front)] = Up THEN Append(front, last)
            ELSE IF front = << <<"/">> >> THEN front
            ELSE SubSeq(front, 1, Len(front) - 1)

(***************************************************************************)
(* Text-mode file I/O of open(path, 'w') and open(path, 'r').              *)
(***************************************************************************)
\* os.linesep of the platform (POSIX).
LineSep == <<"LF">>

\* Writing in text mode with newline=None: each LF becomes os.linesep.
RECURSIVE EncodeText(_)
EncodeText(s) ==
    IF s = <<>> THEN <<>>
    ELSE (IF Head(s) = "LF" THEN LineSep ELSE <<Head(s)>>) \o EncodeText(Tail(s))

\* Reading in text mode with newline=None (universal newlines): CR LF and a
\* lone CR both become LF.
RECURSIVE DecodeText(_)
DecodeText(s) ==
    IF s = <<>> THEN <<>>
    ELSE IF Head(s) = "CR"
         THEN IF Len(s) >= 2 /\ s[2] = "LF"
              THEN <<"LF">> \o DecodeText(Tail(Tail(s)))
              ELSE <<"LF">> \o DecodeText(Tail(s))
         ELSE <<Head(s)>> \o DecodeText(Tail(s))


(***************************************************************************)
(* The state.                                                              *)
(***************************************************************************)
VARIABLES
    ignore_failed,    \* main: args.ignore_failed
    keepHistory,      \* TRUE: messages holds the whole transcript;
                      \* FALSE: only the turns since the latest response
    vocab,            \* the Operation Requests the decision service draws from
    listdir,          \* what os.listdir(artifact_directory) gives: readable, entries
    files,            \* the file system: path of each regular file -> its bytes
    dirs,             \* the file system: the paths of the directories
    gitRepo,          \* the output root holds an initialised repository
    head,             \* the tree of the latest commit: path -> bytes
    commits,          \* the commits made, oldest first
    pc,               \* where main is
    todo,             \* main: the value of list_artifact_files(...)
    idx,              \* main: position of the for loop in todo
    artifact_content, \* process_artifact: artifact_content
    messages,         \* process_artifact: messages
    assistant_message, \* process_artifact: assistant_message
    tcIdx,            \* process_artifact: position of the inner for loop
    attempt,          \* retry_openai_request: attempt
    sleeps,           \* time.sleep calls made by the current retry_openai_request
    delay,            \* the delay of the latest time.sleep of the current call
    sawPermanent,     \* a permanent failure occurred in the current call
    issued,           \* Operation Requests the decision service has issued
    called,           \* positions in todo for which the service was called
    log               \* what main reports: one entry per event of the batch

vars == << ignore_failed, keepHistory, vocab, listdir, files, dirs, gitRepo, head,
           commits, pc, todo, idx, artifact_content, messages,
           assistant_message, tcIdx,
           attempt, sleeps, delay, sawPermanent, issued, called, log >>

envVars == << ignore_failed, keepHistory, vocab, listdir >>
fsVars == << files, dirs >>
gitVars == << gitRepo, head, commits >>
retryVars == << attempt, sleeps, delay, sawPermanent >>
loopVars == << artifact_content, messages, assistant_message, tcIdx >>

(***************************************************************************)
(* The file system.                                                        *)
(***************************************************************************)
IsFile(p) == p \in DOMAIN files
IsDir(p) == p \in dirs

\* q is a directory of the directories ds; the working directory always is.
DirIn(ds, q) == q = <<>> \/ q \in ds

\* The files under directory d of a path -> bytes map.
Under(tree, d) ==
    { p \in DOMAIN tree : Len(p) > Len(d) /\ SubSeq(p, 1, Len(d)) = d }

\* os.listdir(d) is non-empty: d has a file or a directory below it.
HasEntries(d) ==
    \/ Under(files, d) # {}
    \/ \E q \in dirs : Len(q) > Len(d) /\ SubSeq(q, 1, Len(d)) = d

\* The outcome of os.makedirs(p, exist_ok=True): it raises when p is empty
\* or when p or one of its ancestors is a regular file.
MakedirsRaises(p) == p = <<>> \/ \E q \in Ancestors(p) : IsFile(Resolve(q))
MakedirsDirs(p) == dirs \cup ({ Resolve(q) : q \in Ancestors(p) } \ {<<>>})

\* The texts the file helpers return.
WriteOk == <<"File written successfully.">>
WriteErr == <<"Error writing file content: ...">>
ReadErr == <<"Error reading file content: ...">>
ListErr == <<"Error listing artifact files: ...">>

\* open(p, 'w') succeeds: the parent is a directory and p is no directory.
CanOpenForWrite(fs, ds, p) ==
    /\ Resolve(p) # <<>>
    /\ DirIn(ds, DirName(Resolve(p)))
    /\ Resolve(p) \notin ds

\* read_file_content(file_path) on the files fs.
read_file_content(fs, p) ==
    IF Resolve(p) \in DOMAIN fs THEN DecodeText(fs[Resolve(p)]) ELSE ReadErr

\* write_file_content(file_path, content): the files afterwards, the text returned.
write_file_files(fs, ds, p, content) ==
    IF CanOpenForWrite(fs, ds, p)
    THEN [q \in DOMAIN fs \cup {Resolve(p)} |->
            IF q = Resolve(p) THEN EncodeText(content) ELSE fs[q]]
    ELSE fs
write_file_content(fs, ds, p, content) ==
    IF CanOpenForWrite(fs, ds, p) THEN WriteOk ELSE WriteErr

(***************************************************************************)
(* list_artifact_files: sorted(files, key=lambda x: int(x.split('_')[0])). *)
(***************************************************************************)
Digits == {"0","1","2","3","4","5","6","7","8","9"}
DigitVal(c) ==
    CASE c = "0" -> 0 [] c = "1" -> 1 [] c = "2" -> 2 [] c = "3" -> 3
      [] c = "4" -> 4 [] c = "5" -> 5 [] c = "6" -> 6 [] c = "7" -> 7
      [] c = "8" -> 8 [] c = "9" -> 9

\* x.split('_')[0]: the name up to its first underscore.
RECURSIVE SplitHead(_)
SplitHead(x) ==
    IF x = <<>> \/ Head(x) = "_" THEN <<>>
    ELSE <<Head(x)>> \o SplitHead(Tail(x))

\* int(s) raises ValueError unless s is a non-empty run of digits.
IntRaises(s) == s = <<>> \/ \E i \in 1..Len(s) : s[i] \notin Digits
RECURSIVE IntOf(_)
IntOf(s) ==
    IF s = <<>> THEN 0
    ELSE 10 * IntOf(SubSeq(s, 1, Len(s) - 1)) + DigitVal(s[Len(s)])

\* The sort key of a name.
SortKey(x) == IntOf(SplitHead(x))

\* sorted(...) is stable: insert each element after those with a key <= its own.
RECURSIVE InsertSorted(_, _)
InsertSorted(x, s) ==
    IF s = <<>> THEN <<x>>
    ELSE IF SortKey(x) < SortKey(Head(s))
         THEN <<x>> \o s
         ELSE <<Head(s)>> \o InsertSorted(x, Tail(s))
\* The listing as os.listdir gave it.
Sorted_Unsorted(s) == s

RECURSIVE Sorted(_)
Sorted(s) ==
    IF s = <<>> THEN <<>>
    ELSE InsertSorted(s[Len(s)], Sorted(SubSeq(s, 1, Len(s) - 1)))

\* list_artifact_files(directory): any exception gives a one-element list
\* holding the error text.
list_artifact_files(ld) ==
    IF ~ld.readable \/ \E i \in 1..Len(ld.entries) : IntRaises(SplitHead(ld.entries[i]))
    THEN <<ListErr>>
    ELSE Sorted(ld.entries)

(***************************************************************************)
(* The decision service: the Operation Requests it may issue.              *)
(***************************************************************************)
\* The contents the decision service writes.
PlainText == <<"x">>
CrLfText == <<"y","CR","LF","z">>

\* tool_call.function: name and arguments.  parses: json.loads(arguments)
\* succeeds; has: the keys of the parsed arguments.
Rd(p) == [name |-> "read_file_content", parses |-> TRUE, has |-> {"file_path"},
          file_path |-> p, content |-> <<>>]
Wr(p, c) == [name |-> "write_file_content", parses |-> TRUE,
             has |-> {"file_path", "content"}, file_path |-> p, content |-> c]

ToolCalls ==
    { Rd(<<N2a>>), Rd(<<FA>>), Rd(<<Up, <<"i","n">>, N2a>>),
      Wr(<<Up, FA>>, PlainText),
      Wr(<<FA>>, PlainText), Wr(<<FA>>, CrLfText), Wr(<<N2a>>, PlainText),
      Wr(<<FD, FA>>, PlainText), Wr(<<FD>>, PlainText),
      [Rd(<<FA>>) EXCEPT !.name = "list_directory_files"],
      [Rd(<<>>) EXCEPT !.parses = FALSE, !.has = {}],
      [Rd(<<>>) EXCEPT !.has = {}],
      [Wr(<<FD, FA>>, <<>>) EXCEPT !.has = {"file_path"}] }

\* The requests of the behaviours that never end: a write that succeeds and
\* a read whose dispatch raises.
LoopToolCalls ==
    { Wr(<<FA>>, PlainText), [Rd(<<>>) EXCEPT !.has = {}] }

\* The lists of at most n Operation Requests a response may carry.
Responses(n) == UNION { [1..k -> vocab] : k \in 0..n }

(***************************************************************************)
(* The transcript.                                                         *)
(***************************************************************************)
Msg(role, content) ==
    [role |-> role, content |-> content, tool_calls |-> <<>>,
     tool_call_id |-> <<0, 0>>, name |-> ""]

\* The three messages process_artifact starts from.
SeedMessages(artifact_name, content) ==
    << Msg("system", <<"You are an AI agent ...">>),
       Msg("user", <<"In an artifact file with the name ...">>),
       Msg("user", <<"Here's the content of an artifact file with the name ">>
                   \o artifact_name \o <<": ">> \o content) >>

\* The assistant message of a response: its requests get the identifiers
\* (number of the response, position in the response).
AssistantMsg(resp, n) ==
    [Msg("assistant", <<>>) EXCEPT
        !.tool_calls = [i \in 1..Len(resp) |-> [id |-> <<n, i>>, function |-> resp[i]]]]

\* A tool message that does not say which request it answers.
ToolMsg_Unlabelled(tool_call, content) == Msg("tool", content)

\* Lines 213-218 and 224: the message that answers a request.
ToolMsg(tool_call, content) ==
    [Msg("tool", content) EXCEPT
        !.tool_call_id = tool_call.id, !.name = tool_call.function.name]

\* An append that puts the message in front.
AppendMsg_InFront(msgs, m) == <<m>> \o msgs

\* messages.append(m): with keepHistory off only the turns since the latest
\* assistant message are kept.
AppendMsg(msgs, m) ==
    IF keepHistory \/ m.role # "assistant" THEN Append(msgs, m) ELSE <<m>>

NumAssistant(msgs) == Cardinality({ i \in 1..Len(msgs) : msgs[i].role = "assistant" })

(***************************************************************************)
(* exponential_backoff, in units of 1/JitterDen seconds:                   *)
(* min(2 ** attempt + random.uniform(0, 1), max_delay).                    *)
(***************************************************************************)
\* A backoff that grows linearly.
exponential_backoff_Linear(a, jitter) ==
    Min((2 * a) * JitterDen + jitter, max_delay * JitterDen)

exponential_backoff(a, jitter) == Min((2 ^ a) * JitterDen + jitter, max_delay * JitterDen)

(***************************************************************************)
(* The initial states: the command line, the input directory and the       *)
(* output root the batch is started with.                                  *)
(***************************************************************************)
ListDirs ==
    { [readable |-> TRUE, entries |-> <<N10b, N2a>>],
      [readable |-> TRUE, entries |-> <<N3c, NReadme>>],
      [readable |-> TRUE, entries |-> <<>>],
      [readable |-> FALSE, entries |-> <<>>] }

\* The bytes of the artifact files.
ArtifactBytes(n) == IF n = N2a THEN <<"p">> ELSE <<"q", "LF">>

\* A file the output root holds before the batch, if it is not empty.
OldFile == OutputRoot \o << <<"o","l","d">> >>

InputFiles(ld) ==
    [p \in { PathJoin(InputRoot, <<ld.entries[i]>>) : i \in 1..Len(ld.entries) }
        |-> ArtifactBytes(BaseName(p))]

NoMessage == Msg("none", <<>>)

InitWith(history, tool_calls) ==
    /\ ignore_failed \in BOOLEAN
    /\ keepHistory = history
    /\ vocab = tool_calls
    /\ listdir \in ListDirs
    /\ \E out \in {"absent", "empty", "nonempty"} :
          /\ files = IF out = "nonempty"
                     THEN [p \in DOMAIN InputFiles(listdir) \cup {OldFile} |->
                              IF p = OldFile THEN <<"x">> ELSE InputFiles(listdir)[p]]
                     ELSE InputFiles(listdir)
          /\ dirs = (IF listdir.readable THEN {InputRoot} ELSE {})
                    \cup (IF out = "absent" THEN {} ELSE {OutputRoot})
    /\ gitRepo = FALSE
    /\ head = << >>
    /\ commits = << >>
    /\ pc = "start"
    /\ todo = << >>
    /\ idx = 0
    /\ artifact_content = << >>
    /\ messages = << >>
    /\ assistant_message = NoMessage
    /\ tcIdx = 0
    /\ attempt = 0
    /\ sleeps = 0
    /\ delay = 0
    /\ sawPermanent = FALSE
    /\ issued = 0
    /\ called = {}
    /\ log = << >>

Init == InitWith(TRUE, ToolCalls)

Event(ev, what) == [ev |-> ev, at |-> idx, what |-> what]

(***************************************************************************)
(* main, lines 268-274: ensure_empty_directory, os.makedirs,               *)
(* initialize_git_repo.  A failure here is not caught: the batch ends.     *)
(***************************************************************************)
\* A check that looks for the directory only.
ensure_empty_directory_Exists(d) == ~IsDir(d)

\* ensure_empty_directory(directory) raises.
ensure_empty_directory(d) == IsDir(d) /\ HasEntries(d)

Startup ==
    /\ pc = "start"
    /\ IF ensure_empty_directory(OutputRoot)
       THEN /\ log' = Append(log, Event("fatal", "not empty"))
            /\ pc' = "exit"
            /\ UNCHANGED << dirs, gitRepo >>
       ELSE /\ dirs' = MakedirsDirs(OutputRoot)
            /\ \/ /\ gitRepo' = TRUE
                  /\ pc' = "list"
                  /\ log' = Append(log, Event("git init", ""))
               \/ /\ gitRepo' = FALSE
                  /\ pc' = "exit"
                  /\ log' = Append(log, Event("fatal", "CalledProcessError"))
    /\ UNCHANGED << envVars, files, head, commits, todo, idx, loopVars,
                    retryVars, issued, called >>

\* An attempt counter that outlives the call it counted for.
first_attempt_Carried == attempt

\* Line 117: every call of retry_openai_request counts its attempts from 0.
first_attempt == 0

(***************************************************************************)
(* main, line 276: the list the for loop iterates over.                    *)
(***************************************************************************)
ListArtifacts ==
    /\ pc = "list"
    /\ todo' = list_artifact_files(listdir)
    /\ log' = Append(log, Event("listed", ""))
    /\ pc' = "next"
    /\ UNCHANGED << envVars, fsVars, gitVars, idx, loopVars, retryVars,
                    issued, called >>

(***************************************************************************)
(* main, lines 276-281, and process_artifact, lines 129-188: the next      *)
(* artifact is read and its transcript is seeded.                          *)
(***************************************************************************)
BeginArtifact ==
    /\ pc = "next"
    /\ idx < Len(todo)
    /\ idx' = idx + 1
    /\ LET artifact_file == todo[idx + 1]
           artifact_path == PathJoin(InputRoot, <<artifact_file>>)
           content == read_file_content(files, artifact_path)
       IN /\ artifact_content' = content
          /\ messages' = SeedMessages(BaseName(artifact_path), content)
          /\ log' = Append(log, [ev |-> "processing", at |-> idx + 1, what |-> ""])
    /\ assistant_message' = NoMessage
    /\ tcIdx' = 0
    /\ attempt' = first_attempt
    /\ sleeps' = 0
    /\ delay' = 0
    /\ sawPermanent' = FALSE
    /\ pc' = "call"
    /\ UNCHANGED << envVars, fsVars, gitVars, todo, issued, called >>

\* main, line 276: the for loop is exhausted.
EndBatch ==
    /\ pc = "next"
    /\ idx = Len(todo)
    /\ pc' = "exit"
    /\ log' = Append(log, Event("end", ""))
    /\ UNCHANGED << envVars, fsVars, gitVars, todo, idx, loopVars, retryVars,
                    issued, called >>

(***************************************************************************)
(* main, lines 286-292: an exception of process_artifact or of             *)
(* create_git_commit is reported, and the batch stops or goes on.          *)
(***************************************************************************)
\* A main that goes on whatever --ignore-failed says.
AfterFailure_Continue == "next"

\* Lines 288-292: where main goes after a failure.
AfterFailure == IF ignore_failed THEN "next" ELSE "exit"

Raise(what) ==
    /\ log' = log \o <<Event("error", what)>>
                  \o (IF ignore_failed THEN <<>> ELSE <<Event("stopping", "")>>)
    /\ pc' = AfterFailure
    /\ artifact_content' = << >>
    /\ messages' = << >>
    /\ assistant_message' = NoMessage
    /\ tcIdx' = 0
    /\ attempt' = first_attempt
    /\ sleeps' = 0
    /\ delay' = 0
    /\ sawPermanent' = FALSE

(***************************************************************************)
(* retry_openai_request, lines 114-125, called at lines 191-200.           *)
(***************************************************************************)
\* A budget that is one attempt short.
final_attempt_early(a) == a = max_retries - 2

\* Line 121: the attempt is the last one of the budget.
final_attempt(a) == a = max_retries - 1

\* A loop that calls again after a response without requests.
AfterResponse_NoBreak(m) == IF m.tool_calls # << >> THEN "dispatch" ELSE "call"

\* A loop that stops after its second response whatever that carries.
AfterResponse_Capped(m) ==
    IF m.tool_calls # << >> /\ NumAssistant(messages) < 1 THEN "dispatch" ELSE "commit"

\* Lines 205 and 225-228: where process_artifact goes after a response.
AfterResponse(m) == IF m.tool_calls # << >> THEN "dispatch" ELSE "commit"

\* The attempt succeeds (line 119) and process_artifact appends the
\* response (lines 202-205, 225-230).
CallReturns ==
    /\ pc = "call"
    /\ attempt < max_retries
    /\ \E resp \in Responses(IF keepHistory THEN Min(MaxCalls, MaxOps - issued)
                                               ELSE MaxCalls) :
          /\ LET m == AssistantMsg(resp, NumAssistant(messages) + 1)
             IN /\ assistant_message' = m
                /\ messages' = AppendMsg(messages, m)
                /\ pc' = AfterResponse(m)
                /\ tcIdx' = IF pc' = "dispatch" THEN 1 ELSE 0
                /\ log' = IF pc' = "commit"
                          THEN Append(log, Event("processed", ""))
                          ELSE log
          /\ issued' = IF keepHistory THEN issued + Len(resp) ELSE issued
    /\ called' = called \cup {idx}
    /\ attempt' = first_attempt
    /\ sleeps' = 0
    /\ delay' = 0
    /\ sawPermanent' = FALSE
    /\ UNCHANGED << envVars, fsVars, gitVars, todo, idx, artifact_content >>

\* The attempt raises an OpenAIError (lines 120-125): transient (connection,
\* timeout, rate limit, server fault) or permanent (bad request).
CallFails ==
    /\ pc = "call"
    /\ attempt < max_retries
    /\ keepHistory => issued <= MaxFaultOps
    /\ called' = called \cup {idx}
    /\ \E kind \in {"transient", "permanent"} :
          IF final_attempt(attempt)
          THEN /\ Raise(kind)
               /\ UNCHANGED << envVars, fsVars, gitVars, todo, idx, issued >>
          ELSE /\ \E jitter \in 0..JitterDen :
                     delay' = exponential_backoff(attempt, jitter)
               /\ sleeps' = sleeps + 1
               /\ attempt' = attempt + 1
               /\ sawPermanent' = (sawPermanent \/ kind = "permanent")
               /\ UNCHANGED << envVars, fsVars, gitVars, pc, todo, idx, loopVars,
                               issued, log >>

\* The attempt raises something that is no OpenAIError: nothing catches it
\* before main.
CallCrashes ==
    /\ pc = "call"
    /\ attempt < max_retries
    /\ called' = called \cup {idx}
    /\ Raise("Exception")
    /\ UNCHANGED << envVars, fsVars, gitVars, todo, idx, issued >>

(***************************************************************************)
(* process_artifact, lines 206-224: one Operation Request is dispatched.   *)
(***************************************************************************)
\* What follows the dispatch of request tcIdx: the next request or the next call.
AfterDispatch ==
    /\ IF tcIdx < Len(assistant_message.tool_calls)
       THEN /\ tcIdx' = tcIdx + 1
            /\ pc' = "dispatch"
       ELSE /\ tcIdx' = 0
            /\ pc' = "call"
    /\ UNCHANGED << artifact_content, assistant_message, retryVars, log >>

Dispatch ==
    /\ pc = "dispatch"
    /\ LET tool_call == assistant_message.tool_calls[tcIdx]
           fn == tool_call.function
           own == BaseName(PathJoin(InputRoot, <<todo[idx]>>))
           full_path == PathJoin(OutputRoot, fn.file_path)
       IN IF ~fn.parses
          THEN \* line 208: json.loads raises
               Raise("JSONDecodeError") /\ UNCHANGED fsVars
          ELSE IF fn.name = "read_file_content"
          THEN IF "file_path" \notin fn.has
               THEN \* line 211: function_args["file_path"] raises
                    Raise("KeyError") /\ UNCHANGED fsVars
               ELSE /\ messages' = Append(messages, ToolMsg(tool_call,
                            IF fn.file_path = <<own>>
                            THEN artifact_content
                            ELSE read_file_content(files, full_path)))
                    /\ AfterDispatch
                    /\ UNCHANGED fsVars
          ELSE IF fn.name = "write_file_content"
          THEN IF "file_path" \notin fn.has
               THEN Raise("KeyError") /\ UNCHANGED fsVars
               ELSE IF MakedirsRaises(DirName(full_path))
               THEN \* line 221: os.makedirs raises
                    Raise("OSError") /\ UNCHANGED fsVars
               ELSE IF "content" \notin fn.has
               THEN \* line 223: function_args["content"] raises, after makedirs
                    /\ dirs' = MakedirsDirs(DirName(full_path))
                    /\ files' = files
                    /\ Raise("KeyError")
               ELSE /\ dirs' = MakedirsDirs(DirName(full_path))
                    /\ files' = write_file_files(files, dirs', full_path, fn.content)
                    /\ messages' = Append(messages, ToolMsg(tool_call,
                            write_file_content(files, dirs', full_path, fn.content)))
                    /\ AfterDispatch
          ELSE \* neither branch: nothing is appended
               /\ messages' = messages
               /\ AfterDispatch
               /\ UNCHANGED fsVars
    /\ UNCHANGED << envVars, gitVars, todo, idx, issued, called >>

(***************************************************************************)
(* main, lines 284-285, and create_git_commit, lines 242-253.              *)
(***************************************************************************)
\* The files git sees below the output root.
WorkTree == [p \in Under(files, OutputRoot) |-> files[p]]

\* A create_git_commit that never finds the tree unchanged.
NothingToCommit_Never == FALSE

\* Lines 245-246: git status --porcelain prints nothing.
NothingToCommit == WorkTree = head

Checkpoint ==
    /\ pc = "commit"
    /\ LET artifact_file == todo[idx]
           body == read_file_content(files, PathJoin(InputRoot, <<artifact_file>>))
       IN IF NothingToCommit
          THEN \* lines 246-248: return without a commit
               /\ log' = Append(log, Event("no changes", ""))
               /\ pc' = "next"
               /\ UNCHANGED << gitVars, retryVars >>
               /\ artifact_content' = << >>
               /\ messages' = << >>
               /\ assistant_message' = NoMessage
               /\ tcIdx' = 0
          ELSE \/ \* git add and git commit succeed
                  /\ head' = WorkTree
                  /\ commits' = Append(commits,
                        [subject |-> artifact_file, body |-> body, tree |-> WorkTree])
                  /\ log' = Append(log, Event("commit", ""))
                  /\ pc' = "next"
                  /\ UNCHANGED << gitRepo, retryVars >>
                  /\ artifact_content' = << >>
                  /\ messages' = << >>
                  /\ assistant_message' = NoMessage
                  /\ tcIdx' = 0
               \/ \* git add or git commit fails: check=True raises
                  /\ Raise("CalledProcessError")
                  /\ UNCHANGED gitVars
    /\ UNCHANGED << envVars, fsVars, todo, idx, issued, called >>

Next ==
    \/ Startup
    \/ ListArtifacts
    \/ BeginArtifact
    \/ EndBatch
    \/ CallReturns
    \/ CallFails
    \/ CallCrashes
    \/ Dispatch
    \/ Checkpoint

Spec == Init /\ [][Next]_vars

TypeOK ==
    /\ pc \in {"start", "list", "next", "call", "dispatch", "commit", "exit"}
    /\ attempt \in 0..(max_retries - 1)
    /\ idx \in 0..Len(todo)

(***************************************************************************)
(* The program never pauses of its own accord: whenever a step is possible *)
(* one is taken.  The behaviours that never end are looked for with the    *)
(* transcript cut to its latest turns, which the control flow does not     *)
(* read.                                                                   *)
(***************************************************************************)
LiveInit == InitWith(FALSE, LoopToolCalls)

LiveSpec == LiveInit /\ [][Next]_vars /\ WF_vars(Next)

(***************************************************************************)
(* Notions the properties share.                                           *)
(***************************************************************************)
\* The Agent Loop of the current artifact is running.
InLoop == pc \in {"call", "dispatch"}

\* The Operation Requests of all assistant messages of a transcript, in order.
RECURSIVE Requests(_)
Requests(msgs) ==
    IF msgs = << >> THEN << >>
    ELSE Requests(SubSeq(msgs, 1, Len(msgs) - 1))
         \o (IF msgs[Len(msgs)].role = "assistant"
             THEN msgs[Len(msgs)].tool_calls ELSE << >>)

\* The positions of the operation-result Turns that answer request id.
ResultsOf(msgs, id) ==
    { i \in 1..Len(msgs) : msgs[i].role = "tool" /\ msgs[i].tool_call_id = id }

\* The entries of the log that report a failure of artifact k.
ErrorsAt(l, k) == { i \in 1..Len(l) : l[i].ev = "error" /\ l[i].at = k }

(***************************************************************************)
(* C1.  Whenever process_artifact is about to call the decision service,   *)
(* every Operation Request of every assistant-response Turn of the         *)
(* Transcript, whatever its name and arguments, has exactly one            *)
(* operation-result Turn with its tool_call_id.                            *)
(***************************************************************************)
C1_EveryRequestAnswered ==
    (keepHistory /\ pc = "call") =>
        \A j \in 1..Len(Requests(messages)) :
            Cardinality(ResultsOf(messages, Requests(messages)[j].id)) = 1

(***************************************************************************)
(* C2.  Every run of the Agent Loop ends: whenever process_artifact is     *)
(* running, it later is not (it returned or raised to main).               *)
(***************************************************************************)
C2_AlwaysTerminates == InLoop ~> ~InLoop

\* C2 as amended: a run of the Agent Loop ends unless the decision service
\* goes on issuing Operation Requests for ever, so that requests are
\* dispatched again and again without end.
C2_TerminatesUnlessRequestsGoOn ==
    ([]<>(pc = "dispatch")) \/ (InLoop ~> ~InLoop)

\* A run that dispatched a write and then ended in DONE.
C2_Witness ==
    /\ ~keepHistory
    /\ pc = "commit"
    /\ IsFile(PathJoin(OutputRoot, <<FA>>))

(***************************************************************************)
(* C3.  No failure of the dispatch of an Operation Request (arguments that *)
(* do not parse or lack a field, a parent directory that cannot be made,   *)
(* a missing file, a write fault) is raised to main: main never reports a  *)
(* JSONDecodeError, KeyError or OSError for an artifact.                   *)
(***************************************************************************)
C3_DispatchNeverFatal ==
    \A i \in 1..Len(log) :
        log[i].ev = "error" =>
            log[i].what \notin {"JSONDecodeError", "KeyError", "OSError"}

(***************************************************************************)
(* C4.  A permanent failure of the decision service is never retried: no   *)
(* call goes on, and none has slept, after a permanent failure.            *)
(***************************************************************************)
C4_PermanentNotRetried == sawPermanent => (attempt = 0 /\ sleeps = 0)

(***************************************************************************)
(* C5.  A call of retry_openai_request whose attempts all fail transiently *)
(* raises the failure only on attempt number max_retries - 1 (the fifth    *)
(* attempt), having slept max_retries - 1 times (four), once after each    *)
(* earlier attempt and not after the last; the failure ends the artifact's *)
(* Agent Loop: main reports it and no response is appended.                *)
(***************************************************************************)
\* This step raises a transient failure to main.
RaisesTransient ==
    /\ pc = "call"
    /\ ~sawPermanent
    /\ \E i \in ErrorsAt(log', idx) \ ErrorsAt(log, idx) : log'[i].what = "transient"

\* This step is a failed attempt that is retried.
Retries == pc = "call" /\ pc' = "call" /\ attempt' # attempt

C5_BudgetExhausted ==
    [][ /\ RaisesTransient =>
            /\ attempt = max_retries - 1
            /\ sleeps = max_retries - 1
            /\ sleeps' = 0
            /\ pc' \in {"next", "exit"}
            /\ idx' = idx
            /\ messages' = << >>
        /\ Retries =>
            /\ attempt < max_retries - 1
            /\ attempt' = attempt + 1
            /\ sleeps' = sleeps + 1
            /\ UNCHANGED << messages, log >> ]_vars

\* A transient failure has been raised to main for some artifact.
C5_Witness ==
    \E i \in 1..Len(log) : log[i].ev = "error" /\ log[i].what = "transient"

(***************************************************************************)
(* C6.  A call of retry_openai_request that fails k < max_retries times    *)
(* and then succeeds returns on attempt number k (the (k+1)-th attempt)    *)
(* having slept exactly k times, and the delay slept after the failure of  *)
(* attempt a is at least 2^a and at most min(2^a + 1, max_delay) seconds   *)
(* (delays are in units of 1/JitterDen seconds).                           *)
(***************************************************************************)
\* This step is a successful attempt: the response is appended.
Returns == pc = "call" /\ pc' \in {"dispatch", "commit"}

C6_RetryThenSucceed ==
    [][ /\ Returns =>
            /\ attempt < max_retries
            /\ sleeps = attempt
            /\ Len(messages') >= 1
            /\ messages'[Len(messages')].role = "assistant"
        /\ Retries =>
            /\ sleeps' = attempt + 1
            /\ delay' >= (2 ^ attempt) * JitterDen
            /\ delay' <= Min((2 ^ attempt + 1) * JitterDen, max_delay * JitterDen)
            /\ delay' <= max_delay * JitterDen ]_vars

\* The call is about to make its last attempt after four failures and four
\* delays, the latest one the longest the jitter allows.
C6_Witness ==
    /\ pc = "call"
    /\ attempt = max_retries - 1
    /\ sleeps = max_retries - 1
    /\ delay = (2 ^ (max_retries - 2) + 1) * JitterDen

(***************************************************************************)
(* C7.  Round trip: in one run of the Agent Loop, when a write request for *)
(* (p, c) is immediately followed by a read request for the same p, the    *)
(* result of the read is exactly c, whatever p and c are.                  *)
(***************************************************************************)
IsWrite(f) ==
    f.name = "write_file_content" /\ f.parses /\ f.has = {"file_path", "content"}
IsRead(f) ==
    f.name = "read_file_content" /\ f.parses /\ "file_path" \in f.has

C7_WriteThenReadRoundTrip ==
    keepHistory =>
        LET reqs == Requests(messages)
        IN \A j \in 1..(Len(reqs) - 1) :
              ( /\ IsWrite(reqs[j].function)
                /\ IsRead(reqs[j + 1].function)
                /\ reqs[j + 1].function.file_path = reqs[j].function.file_path )
              => \A i \in ResultsOf(messages, reqs[j + 1].id) :
                    messages[i].content = reqs[j].function.content

(***************************************************************************)
(* C8.  Failure policy of main.  Stop policy: once an artifact has failed  *)
(* (its Agent Loop or its checkpoint raised), nothing more happens: no     *)
(* step is taken, so no later artifact is started, the decision service is *)
(* not called, no file is written and nothing is committed; the failure is *)
(* the only one and its report is the last thing logged.  Continue policy  *)
(* (--ignore-failed): the artifacts are started one by one in the order of *)
(* the list, failed or not, and the batch ends only when every artifact of *)
(* the list has been started.                                              *)
(***************************************************************************)
\* The positions (in todo) of the artifacts started so far, in order.
RECURSIVE Started(_)
Started(l) ==
    IF l = << >> THEN << >>
    ELSE Started(SubSeq(l, 1, Len(l) - 1))
         \o (IF l[Len(l)].ev = "processing" THEN <<l[Len(l)].at>> ELSE << >>)

\* The entries of the log that report a failure of an artifact.
Errors(l) == { i \in 1..Len(l) : l[i].ev = "error" }

C8_FailurePolicy ==
    [][ /\ ~(~ignore_failed /\ Errors(log) # {})
        /\ Started(log') = [k \in 1..idx' |-> k]
        /\ called' \subseteq 1..idx'
        /\ (~ignore_failed /\ Errors(log') # {}) =>
              /\ pc' = "exit"
              /\ Errors(log') = {Len(log') - 1}
              /\ log'[Len(log') - 1].at = idx'
              /\ log'[Len(log')].ev = "stopping"
        /\ (ignore_failed /\ Errors(log') # Errors(log)) =>
              /\ pc' = "next"
              /\ idx' = idx
        /\ (ignore_failed /\ pc' = "exit" /\ gitRepo') =>
              /\ idx' = Len(todo')
              /\ log'[Len(log')].ev = "end" ]_vars

\* Under the continue policy the first of two artifacts failed in its
\* Agent Loop, the second failed at its checkpoint, and the batch went on
\* to the end.
C8_Witness ==
    /\ ignore_failed
    /\ pc = "exit"
    /\ Len(todo) = 2
    /\ Started(log) = <<1, 2>>
    /\ \E i \in ErrorsAt(log, 1) : log[i].what = "transient"
    /\ \E i \in ErrorsAt(log, 2) : log[i].what = "CalledProcessError"

(***************************************************************************)
(* C9.  The artifacts are taken one at a time in ascending order of their  *)
(* leading number.  The checkpoint sink (create_git_commit) is entered for *)
(* an artifact at most once, directly after its Agent Loop returned        *)
(* (DONE), and before the next artifact is started; it is never entered    *)
(* for an artifact whose Agent Loop raised.                                *)
(***************************************************************************)
\* The leading number of the artifact names of the model.
Ordinal(n) == CASE n = N2a -> 2 [] n = N3c -> 3 [] n = N10b -> 10 [] OTHER -> 0

\* The log entry reports that create_git_commit was entered for artifact k:
\* it committed, found nothing to commit, or git failed.
IsSink(e, k) ==
    /\ e.at = k
    /\ \/ e.ev \in {"commit", "no changes"}
       \/ e.ev = "error" /\ e.what = "CalledProcessError"

SinkAt(l, k) == { i \in 1..Len(l) : IsSink(l[i], k) }
ProcessedAt(l, k) == { i \in 1..Len(l) : l[i].ev = "processed" /\ l[i].at = k }
LoopErrorsAt(l, k) == { i \in ErrorsAt(l, k) : l[i].what # "CalledProcessError" }

\* list_artifact_files has returned.
Listed == \E i \in 1..Len(log) : log[i].ev = "listed"

C9_SequentialCheckpoint ==
    /\ (Listed /\ todo # <<ListErr>>) =>
          /\ Len(todo) = Len(listdir.entries)
          /\ { todo[i] : i \in 1..Len(todo) }
                = { listdir.entries[i] : i \in 1..Len(listdir.entries) }
          /\ \A i, j \in 1..Len(todo) : i < j => Ordinal(todo[i]) <= Ordinal(todo[j])
    /\ Started(log) = [k \in 1..idx |-> k]
    /\ InLoop => ProcessedAt(log, idx) = {} /\ ErrorsAt(log, idx) = {}
    /\ \A k \in 1..idx :
          /\ Cardinality(SinkAt(log, k)) <= 1
          /\ Cardinality(ProcessedAt(log, k)) <= 1
          /\ \A i \in SinkAt(log, k) : i > 1 /\ (i - 1) \in ProcessedAt(log, k)
          /\ \A i \in ProcessedAt(log, k) :
                IF i = Len(log) THEN pc = "commit" /\ idx = k
                ELSE (i + 1) \in SinkAt(log, k)
          /\ LoopErrorsAt(log, k) # {} =>
                SinkAt(log, k) = {} /\ ProcessedAt(log, k) = {}
          /\ \A i \in 1..Len(log) :
                (log[i].ev = "processing" /\ log[i].at > k) =>
                    \A j \in SinkAt(log, k) \cup ProcessedAt(log, k) : j < i
    /\ \A n \in 1..Len(commits) : \E k \in 1..idx :
          /\ commits[n].subject = todo[k]
          /\ \E i \in SinkAt(log, k) : log[i].ev = "commit"

\* Two artifacts listed out of order were sorted; the first was committed,
\* the second changed nothing.
C9_Witness ==
    /\ pc = "exit"
    /\ todo = <<N2a, N10b>>
    /\ listdir.entries # todo
    /\ \E i \in SinkAt(log, 1) : log[i].ev = "commit"
    /\ \E i \in SinkAt(log, 2) : log[i].ev = "no changes"

(***************************************************************************)
(* C10.  When the output root holds an entry as the batch starts, the      *)
(* first step of main ends the batch with the not-empty failure: no        *)
(* repository is initialised, nothing is listed, the decision service is   *)
(* not called, no file or directory is written and nothing is committed;   *)
(* and nothing happens after the batch has ended.                          *)
(***************************************************************************)
C10_NonEmptyOutputRoot ==
    [][ /\ pc # "exit"
        /\ (pc = "start" /\ HasEntries(OutputRoot)) =>
              /\ pc' = "exit"
              /\ log' = <<[ev |-> "fatal", at |-> 0, what |-> "not empty"]>>
              /\ gitRepo' = FALSE
              /\ todo' = << >>
              /\ idx' = 0
              /\ called' = {}
              /\ commits' = << >>
              /\ head' = << >>
              /\ messages' = << >>
              /\ UNCHANGED << files, dirs >> ]_vars

\* The batch has ended with the not-empty failure.
C10_Witness ==
    /\ pc = "exit"
    /\ log = <<[ev |-> "fatal", at |-> 0, what |-> "not empty"]>>
    /\ IsFile(OldFile)


(***************************************************************************)
(* C11  When the listing fails, because the input directory cannot be read *)
(* or because a name in it has no leading number, the batch runs no Agent  *)
(* Loop, calls the service for nothing and records no checkpoint.          *)
(***************************************************************************)
\* The listing of the input directory fails.
ListingFails ==
    \/ ~listdir.readable
    \/ \E i \in 1..Len(listdir.entries) : Ordinal(listdir.entries[i]) = 0

C11_ListingFailureRunsNothing ==
    ListingFails =>
        /\ idx = 0
        /\ called = {}
        /\ commits = << >>
        /\ \A i \in 1..Len(log) : log[i].ev \notin {"processing", "processed", "commit"}

(***************************************************************************)
(* C12  create_git_commit with no change in the output tree since the last *)
(* checkpoint records no checkpoint, leaves the repository as it is and    *)
(* returns without raising, and the batch goes on to the next artifact;    *)
(* with changes in the tree it records exactly one checkpoint.             *)
(***************************************************************************)
\* create_git_commit returned having changed nothing.
SinkNoOp ==
    /\ commits' = commits
    /\ head' = head
    /\ gitRepo' = gitRepo
    /\ pc' = "next"
    /\ log' = Append(log, Event("no changes", ""))
    /\ UNCHANGED << fsVars, todo, idx >>

\* create_git_commit recorded one checkpoint of the whole tree.
SinkOneCheckpoint ==
    /\ Len(commits') = Len(commits) + 1
    /\ SubSeq(commits', 1, Len(commits)) = commits
    /\ commits'[Len(commits')].tree = WorkTree
    /\ commits'[Len(commits')].subject = todo[idx]
    /\ head' = WorkTree
    /\ pc' = "next"
    /\ UNCHANGED << fsVars, todo, idx >>

\* git add or git commit failed: nothing is recorded, main gets the error.
SinkRaises ==
    /\ commits' = commits
    /\ head' = head
    /\ Len(log') > Len(log)
    /\ log'[Len(log) + 1] = Event("error", "CalledProcessError")
    /\ pc' \in {"next", "exit"}

C12_SinkNoOpOrOneCheckpoint ==
    [][pc = "commit" =>
          IF WorkTree = head THEN SinkNoOp ELSE SinkOneCheckpoint]_vars

\* C12, amended: with changes in the tree the sink records exactly one
\* checkpoint unless git add or git commit fails, in which case it records
\* none and raises; without changes it is a no-op that does not raise.
C12_SinkNoOpOrOneCheckpointOrRaise ==
    [][pc = "commit" =>
          IF WorkTree = head THEN SinkNoOp
          ELSE SinkOneCheckpoint \/ SinkRaises]_vars

\* The sink found nothing to commit for the first artifact, the batch went
\* on to the second, and the sink recorded that one's changes.
C12_Witness ==
    /\ Len(commits) = 1
    /\ \E i \in 1..(Len(log) - 1) :
          /\ log[i].ev = "no changes"
          /\ log[i + 1].ev = "processing"
          /\ \E j \in (i + 2)..Len(log) : log[j].ev = "commit"

(***************************************************************************)
(* C13  A read request for the current artifact's own file name is         *)
(* answered with the artifact content held in memory, whatever the output  *)
(* tree holds under that name; every other read request is answered from   *)
(* the file at that path under the output root; no read changes the tree.  *)
(***************************************************************************)
\* The request about to be dispatched is a well-formed read request.
ReadRequested ==
    /\ pc = "dispatch"
    /\ IsRead(assistant_message.tool_calls[tcIdx].function)

\* The location p lies below the output root.
InsideOutput(p) == Len(p) > 1 /\ p[1] = OutputRoot[1] /\ \A i \in 1..Len(p) : p[i] # Up

\* The answer appended for the request being dispatched.
Answer == messages'[Len(messages')].content

C13_ReadFrame ==
    [][ReadRequested =>
          LET fp == assistant_message.tool_calls[tcIdx].function.file_path
              loc == Resolve(OutputRoot \o fp)
          IN /\ Len(messages') = Len(messages) + 1
             /\ IF fp = <<todo[idx]>>
                THEN Answer = artifact_content
                ELSE /\ InsideOutput(loc)
                     /\ Answer = IF loc \in DOMAIN files
                                 THEN DecodeText(files[loc]) ELSE ReadErr
             /\ UNCHANGED fsVars]_vars

(***************************************************************************)
(* C14  Every response is appended as exactly one assistant message,       *)
(* with or without requests.  The loop is done exactly when the latest     *)
(* assistant message carries no request; otherwise its requests are        *)
(* dispatched one after the other and the service is called again.  The    *)
(* number of messages is not capped: within the bound of this model a      *)
(* response with requests is possible whenever a call begins.              *)
(***************************************************************************)
\* The position of the latest assistant message of a transcript, 0 if none.
LastAssistantAt(msgs) ==
    LET at == { i \in 1..Len(msgs) : msgs[i].role = "assistant" }
    IN IF at = {} THEN 0 ELSE CHOOSE i \in at : \A j \in at : j <= i

\* The latest assistant message carries requests, or there is none yet.
RequestsPending(msgs) ==
    LastAssistantAt(msgs) = 0 \/ msgs[LastAssistantAt(msgs)].tool_calls # << >>

\* What the rule asks of one step of the program.
TransitionRule ==
    /\ Returns =>
          /\ messages' = Append(messages, messages'[Len(messages')])
          /\ messages'[Len(messages')].role = "assistant"
          /\ messages'[Len(messages')] = assistant_message'
    /\ (pc' = "commit") => (Returns /\ ~RequestsPending(messages'))
    /\ (pc' \in {"call", "dispatch"}) => RequestsPending(messages')
    /\ (pc = "call" /\ pc' = "dispatch") => tcIdx' = 1
    /\ (pc = "dispatch" /\ pc' = "dispatch") =>
          (tcIdx < Len(assistant_message.tool_calls) /\ tcIdx' = tcIdx + 1)
    /\ (pc = "dispatch" /\ pc' = "call") =>
          tcIdx = Len(assistant_message.tool_calls)
    /\ (pc = "call" /\ attempt = 0 /\ issued < MaxOps) =>
          ENABLED (CallReturns /\ pc' = "dispatch")

C14_TransitionRule == [][TransitionRule]_vars

\* A loop that is done after two responses with requests and a third without.
C14_Witness ==
    /\ pc = "commit"
    /\ NumAssistant(messages) = 3
    /\ Len(messages) > 6

(***************************************************************************)
(* C15  The tool messages that answer the requests of one assistant        *)
(* message stand directly after it, before the next assistant message, in  *)
(* the order of the requests; every tool message carries the identifier of *)
(* a request of the closest assistant message before it.                   *)
(***************************************************************************)
\* The position in assistant message m of the request with identifier id,
\* 0 if it has none.
RequestAt(m, id) ==
    LET at == { n \in 1..Len(m.tool_calls) : m.tool_calls[n].id = id }
    IN IF at = {} THEN 0 ELSE CHOOSE n \in at : TRUE

C15_ResultsFollowRequests ==
    \A i \in 1..Len(messages) :
        messages[i].role = "tool" =>
            LET a == LastAssistantAt(SubSeq(messages, 1, i - 1))
            IN /\ a > 0
               /\ RequestAt(messages[a], messages[i].tool_call_id) > 0
               /\ \A j \in (a + 1)..(i - 1) :
                     /\ messages[j].role = "tool"
                     /\ RequestAt(messages[a], messages[j].tool_call_id)
                           < RequestAt(messages[a], messages[i].tool_call_id)

\* Both requests of an assistant message were answered, first the first and
\* then the second, and the next assistant message follows the answers.
C15_Witness ==
    \E a \in 1..(Len(messages) - 3) :
        /\ messages[a].role = "assistant"
        /\ Len(messages[a].tool_calls) = 2
        /\ messages[a + 1].role = "tool"
        /\ messages[a + 1].tool_call_id = messages[a].tool_calls[1].id
        /\ messages[a + 2].role = "tool"
        /\ messages[a + 2].tool_call_id = messages[a].tool_calls[2].id
        /\ messages[a + 3].role = "assistant"

(***************************************************************************)
(* C16  Within one run of the Agent Loop the transcript only grows at its  *)
(* end: every later transcript has every earlier one as a prefix.  Every   *)
(* run starts from a transcript of its own: the one system message and the *)
(* two user messages, the second naming the artifact and holding its       *)
(* content, and no message of an earlier artifact's run.                   *)
(***************************************************************************)
IsPrefix(a, b) == Len(a) <= Len(b) /\ SubSeq(b, 1, Len(a)) = a

\* The text t occurs in the text s.
Occurs(t, s) == \E k \in 0..(Len(s) - Len(t)) : SubSeq(s, k + 1, k + Len(t)) = t

TranscriptStep ==
    /\ (InLoop /\ pc' \in {"call", "dispatch", "commit"}) =>
          IsPrefix(messages, messages')
    /\ (pc = "next" /\ pc' = "call") =>
          /\ Len(messages') = 3
          /\ messages'[1].role = "system"
          /\ messages'[2].role = "user"
          /\ messages'[3].role = "user"
          /\ Occurs(todo[idx'] \o <<": ">> \o artifact_content', messages'[3].content)
          /\ \A i \in 1..3 : messages'[i].tool_calls = << >>
    /\ (pc' \in {"call", "dispatch", "commit"}) =>
          /\ Len(messages') >= 3
          /\ \A i \in 1..Len(messages') : (messages'[i].role = "system") <=> (i = 1)
          /\ \A i \in 1..Len(messages') : (messages'[i].role = "user") <=> (i \in {2, 3})

C16_TranscriptAppendOnly == [][TranscriptStep]_vars

\* The run of the second artifact has a transcript of its own that has
\* grown, after the run of the first artifact was done.
C16_Witness ==
    /\ idx = 2
    /\ pc = "call"
    /\ Len(messages) >= 5
    /\ ProcessedAt(log, 1) # {}

(***************************************************************************)
(* C17  The retry policy keeps nothing from one call to the next: every    *)
(* call of the service begins with attempt 0, no sleep behind it and so    *)
(* the whole budget of max_retries attempts before it, whatever failed in  *)
(* earlier calls of the same or of an earlier artifact; within a call the  *)
(* attempt number only counts that call's own failures.                    *)
(***************************************************************************)
RetryStep ==
    /\ (pc # "call" /\ pc' = "call") =>
          /\ attempt' = 0
          /\ sleeps' = 0
          /\ delay' = 0
          /\ ~sawPermanent'
    /\ (pc = "call" /\ pc' = "call") =>
          /\ attempt' = attempt + 1
          /\ sleeps' = sleeps + 1
    /\ (pc = "call" /\ pc' # "call") =>
          /\ attempt' = 0
          /\ sleeps' = 0
    /\ (pc # "call" /\ pc' # "call") =>
          /\ attempt' = 0
          /\ sleeps' = 0
    /\ (pc = "call" /\ attempt = 0 /\ (keepHistory => issued <= MaxFaultOps)) =>
          ENABLED (CallFails /\ pc' = "call")

C17_RetryStateless == [][RetryStep]_vars

\* The first artifact used up its budget; the call for the second artifact
\* has again come to the last attempt of a whole budget.
C17_Witness ==
    /\ idx = 2
    /\ pc = "call"
    /\ attempt = max_retries - 1
    /\ sleeps = max_retries - 1
    /\ \E i \in ErrorsAt(log, 1) : log[i].what = "transient"

(***************************************************************************)
(* C18  Whatever file_path a request names, the file it reads or writes    *)
(* and the directories it creates lie below the output root: nothing       *)
(* outside the output root is created or changed, and the request being    *)
(* dispatched addresses no place outside it.                               *)
(***************************************************************************)
\* The request being dispatched reaches the file store.
StoreRequested ==
    /\ pc = "dispatch"
    /\ LET f == assistant_message.tool_calls[tcIdx].function
       IN \/ IsRead(f) /\ f.file_path # <<todo[idx]>>
          \/ f.name = "write_file_content" /\ f.parses /\ "file_path" \in f.has

C18_AccessInsideOutput ==
    /\ \A p \in DOMAIN files :
          \/ InsideOutput(p)
          \/ p \in DOMAIN InputFiles(listdir) /\ files[p] = InputFiles(listdir)[p]
    /\ \A d \in dirs : d = OutputRoot \/ d = InputRoot \/ InsideOutput(d)
    /\ StoreRequested =>
          InsideOutput(Resolve(PathJoin(OutputRoot,
              assistant_message.tool_calls[tcIdx].function.file_path)))

(***************************************************************************)
(* C19  Under either failure policy, a checkpoint recorded for an artifact *)
(* changes only files that a write request of that artifact's own run      *)
(* addressed: what an artifact wrote before its run failed is in no later  *)
(* artifact's checkpoint.                                                  *)
(***************************************************************************)
\* The files in which the tree new differs from the tree old.
Changed(old, new) ==
    { p \in DOMAIN new : p \notin DOMAIN old \/ old[p] # new[p] }
        \cup (DOMAIN old \ DOMAIN new)

\* The files the write requests of a transcript address.
WrittenBy(msgs) ==
    { Resolve(PathJoin(OutputRoot, Requests(msgs)[n].function.file_path)) :
        n \in { k \in 1..Len(Requests(msgs)) : IsWrite(Requests(msgs)[k].function) } }

C19_CheckpointOwnChangesOnly ==
    [][(pc = "commit" /\ Len(commits') > Len(commits)) =>
          Changed(head, commits'[Len(commits')].tree) \subseteq WrittenBy(messages)]_vars
=============================================================================
